---- MODULE Spec2Model ----
(***************************************************************************)
(* The token lifecycle of AuthService (services/authService): the two      *)
(* AsyncStorage entries accessToken and refreshToken, makeRequest with its *)
(* abort timer, and the public operations signIn, signUp, signOut,         *)
(* refreshToken, getCurrentUser, updateProfile, changePassword and         *)
(* isAuthenticated, called by concurrent callers.  JavaScript runs one     *)
(* task at a time, so a step is what happens between two suspension        *)
(* points: a storage get/set/remove completing, a fetch settling, a body   *)
(* being read, a timer firing.  The continuation of an await runs in the   *)
(* same step as the event that settles the awaited promise.  On top of the *)
(* service, the handlers of the screens that drive it: the bootstrap check *)
(* of Index, handleSignOut of the sign-out screen, handleSignIn of the     *)
(* sign-in screen.                                                         *)
(***************************************************************************)
EXTENDS Integers, FiniteSets, Sequences, TLC

\* ------------------------------------------------------------- bounds
\* Concurrent callers of the service (screens, effects).
Procs == {"c1", "c2"}
\* Token pairs the server mints (successful signin/signup responses).
MaxSessions == 2
\* Access tokens the server mints per refresh token on /auth/refresh-token.
MaxGen == 1
\* HTTP statuses the server answers with.
HttpStatuses == {200, 401, 500}
\* What the body of a response turns out to be once read.
BodyKinds == {"ok", "nodata", "notokens", "error", "badjson"}
\* The message of the TypeError a failing fetch rejects with (browser, React Native).
NetworkMessages == {"Failed to fetch", "Network request failed"}
\* The message of a response's envelope ("" when it has none).
Messages == {"", "Invalid credentials"}
\* The errors of a response's envelope: none, an empty list, a list naming the
\* email field, a list naming other fields only.
ErrorLists == {"undefined", "empty", "email", "other"}
Envelopes == [message : Messages, errors : ErrorLists]

\* ------------------------------------------------------------- values
Keys == {"accessToken", "refreshToken"}
Null == [kind |-> "null", from |-> 0, gen |-> 0]
RefreshTok(n) == [kind |-> "refresh", from |-> n, gen |-> 0]
AccessTok(n, g) == [kind |-> "access", from |-> n, gen |-> g]
\* The empty string, which AsyncStorage stores and returns like any other string.
EmptyString == [kind |-> "empty", from |-> 0, gen |-> 0]
\* JavaScript truthiness of what getItem returned: null and '' are falsy.
Truthy(t) == t # Null /\ t # EmptyString

\* The payloads (envelope.data, return values) the operations pass around.
Data(shape, a, r) == [shape |-> shape, access |-> a, refresh |-> r]
Undefined == Data("undefined", Null, Null)
NullValue == Data("null", Null, Null)
Bool(b) == Data(IF b THEN "true" ELSE "false", Null, Null)

\* A settled promise: fulfilled with data, or rejected with an exception.
NoOutcome ==
    [kind |-> "none", err |-> "none", status |-> -1, message |-> "", errors |-> "undefined",
     data |-> Undefined]
Returned(d) ==
    [kind |-> "ret", err |-> "none", status |-> -1, message |-> "", errors |-> "undefined",
     data |-> d]
Thrown(err, status, message) ==
    [kind |-> "throw", err |-> err, status |-> status, message |-> message,
     errors |-> "undefined", data |-> Undefined]
ApiError(message, status) == Thrown("ApiError", status, message)
\* new ApiError(message, status, errors)
ApiErrorOf(message, status, errors) == [ApiError(message, status) EXCEPT !.errors = errors]

AuthEndpoints == {"/auth/signin", "/auth/signup"}
NoRequest ==
    [timer |-> FALSE, delay |-> 0, http |-> 0, endpoint |-> "", body |-> Null,
     auth |-> Null, headers |-> {}]

SignInOps == {"signIn", "signUp"}
HeaderOps == {"getCurrentUser", "updateProfile", "changePassword"}
Ops == SignInOps \cup HeaderOps \cup {"signOut", "refreshToken", "isAuthenticated"}

Endpoint(o) ==
    CASE o = "signIn" -> "/auth/signin"
      [] o = "signUp" -> "/auth/signup"
      [] o = "signOut" -> "/auth/signout"
      [] o = "refreshToken" -> "/auth/refresh-token"
      [] o = "getCurrentUser" -> "/auth/me"
      [] o = "updateProfile" -> "/auth/profile"
      [] o = "changePassword" -> "/auth/change-password"
      [] OTHER -> ""

\* The headers each operation passes to makeRequest in its options: none at all
\* for signIn, signUp and refreshToken, what getAuthHeaders returned for signOut
\* and getCurrentUser, Content-Type next to it for updateProfile and changePassword.
HasHeadersOption(endpoint) == endpoint \notin AuthEndpoints \cup {"/auth/refresh-token"}
HeadersOption(endpoint) ==
    CASE endpoint \in {"/auth/signout", "/auth/me"} -> {"Authorization"}
      [] endpoint \in {"/auth/profile", "/auth/change-password"} ->
            {"Content-Type", "Authorization"}
      [] OTHER -> {}

\* The headers of fetch's init object { headers: {'Content-Type', ...options.headers},
\* signal, ...options }: the spread of options comes last, so a headers key in
\* options replaces the merged headers.
FetchHeaders(endpoint) ==
    IF HasHeadersOption(endpoint)
    THEN HeadersOption(endpoint)
    ELSE {"Content-Type"} \cup HeadersOption(endpoint)

\* ------------------------------------------------------ configuration
\* An environment entry: absent, or a string, here a sequence of characters.
MaxEnvLen == 2
EnvChars == {"0", "5", "x"}
EnvUnset == [set |-> FALSE, text |-> <<>>]
EnvStrings ==
    {[set |-> TRUE, text |-> t] :
        t \in UNION {[1..n -> EnvChars] : n \in 0..MaxEnvLen}}
EnvValues == {EnvUnset} \cup EnvStrings

NaN == [nan |-> TRUE, val |-> 0]
Num(v) == [nan |-> FALSE, val |-> v]
IsDigit(c) == c \in {"0", "5"}
DigitValue(c) == IF c = "0" THEN 0 ELSE 5

RECURSIVE Decimal(_)
Decimal(t) ==
    IF Len(t) = 0 THEN 0
    ELSE 10 * Decimal(SubSeq(t, 1, Len(t) - 1)) + DigitValue(t[Len(t)])

\* Number(x): NaN for undefined, 0 for the empty string, the value of a string
\* of decimal digits, NaN for a string with any other character in it.
Number(e) ==
    IF ~e.set THEN NaN
    ELSE IF \A i \in 1..Len(e.text) : IsDigit(e.text[i]) THEN Num(Decimal(e.text))
    ELSE NaN

\* const API_TIMEOUT = Number(process.env.EXPO_PUBLIC_API_TIMEOUT) || 10000:
\* NaN and 0 are falsy.
API_TIMEOUT(e) ==
    IF Number(e).nan \/ Number(e).val = 0 THEN 10000 ELSE Number(e).val

\* ------------------------------------------------------------ screens
Routes == {"/(tabs)", "/(auth)/signin"}
FormFields == {"email", "password", "general"}
\* No screen handler is running.  A screen's record: the caller its service calls
\* run as, the await it is suspended at, its flag (isCheckingAuth, isSigningOut,
\* loading), the routes it has replaced to, the form's errors, the alert it shows
\* (the route its button leads to), and the service calls it has made.
NoScreen ==
    [screen |-> "none", proc |-> "none", stage |-> "none", flag |-> FALSE, nav |-> <<>>,
     errors |-> {}, alert |-> "none", me |-> 0, refresh |-> 0, meStatus |-> -1]

\* -------------------------------------------------------------- state
VARIABLES
    storage,   \* AsyncStorage: key -> token, Null when the key is absent
    minted,    \* token pairs the server has issued so far
    pc,        \* per caller: where its operation is suspended
    op,        \* per caller: the operation it is in
    rtok,      \* per caller: the token a getItem gave it, while a later step still uses it
    req,       \* per caller: the makeRequest in flight (timer, response, what was sent)
    resp,      \* per caller: how its makeRequest settled
    pend,      \* per caller: the storage writes of a Promise.all not yet done
    result,    \* per caller: how the operation settled
    nreq,      \* per caller: fetch calls issued by the operation
    env,       \* process.env.EXPO_PUBLIC_API_TIMEOUT, as it was when the module loaded
    ui         \* the screen whose handler is running: its state, what it navigated to

vars == <<storage, minted, pc, op, rtok, req, resp, pend, result, nreq, env, ui>>

Init ==
    /\ storage = [k \in Keys |-> Null]
    /\ minted = 0
    /\ pc = [p \in Procs |-> "idle"]
    /\ op = [p \in Procs |-> "none"]
    /\ rtok = [p \in Procs |-> Null]
    /\ req = [p \in Procs |-> NoRequest]
    /\ resp = [p \in Procs |-> NoOutcome]
    /\ pend = [p \in Procs |-> {}]
    /\ result = [p \in Procs |-> NoOutcome]
    /\ nreq = [p \in Procs |-> 0]
    /\ env = EnvUnset
    /\ ui = NoScreen

\* ------------------------------------------------------- makeRequest
ResponseOk(http) == http >= 200 /\ http <= 299

\* makeRequest up to its first await: the abort timer is armed and fetch is called.
makeRequest(p, endpoint, body, auth) ==
    /\ pc' = [pc EXCEPT ![p] = "fetch"]
    /\ req' = [req EXCEPT ![p] = [timer |-> TRUE, delay |-> API_TIMEOUT(env),
                                  http |-> 0, endpoint |-> endpoint,
                                  body |-> body, auth |-> auth,
                                  headers |-> FetchHeaders(endpoint)]]
    /\ nreq' = [nreq EXCEPT ![p] = @ + 1]

\* Faulty variant: the catch block without its AbortError branch.
Catch_noAbort(error) ==
    IF error.err = "ApiError" THEN error
    ELSE IF error.err = "TypeError" /\ error.message = "Failed to fetch"
         THEN ApiError("Network error. Please check your connection.", 0)
    ELSE ApiError("An unexpected error occurred", 500)

\* The catch block of makeRequest: what is rethrown for what was caught.
Catch(error) ==
    IF error.err = "ApiError" THEN error
    ELSE IF error.err = "AbortError" THEN ApiError("Request timeout", 408)
    ELSE IF error.err = "TypeError" /\ error.message = "Failed to fetch"
         THEN ApiError("Network error. Please check your connection.", 0)
    ELSE ApiError("An unexpected error occurred", 500)

\* Faulty variant: makeRequest without its check of response.ok.
Parsed_noOkCheck(http, body, e, payload) ==
    IF body = "badjson" THEN Catch(Thrown("SyntaxError", -1, "Unexpected token"))
    ELSE IF body = "error" THEN Catch(ApiErrorOf(e.message, http, e.errors))
    ELSE Returned(IF body = "nodata" THEN Undefined ELSE payload)

\* Faulty variant: makeRequest without its check of the envelope's status.
Parsed_noEnvelopeCheck(http, body, e, payload) ==
    IF body = "badjson" THEN Catch(Thrown("SyntaxError", -1, "Unexpected token"))
    ELSE IF ~ResponseOk(http)
         THEN Catch(ApiErrorOf(IF e.message = "" THEN "An error occurred" ELSE e.message,
                               http, e.errors))
    ELSE Returned(IF body = "nodata" THEN Undefined ELSE payload)

\* makeRequest from the parsed body on: response.json() throws on a body that is
\* no JSON, then the two checks, then data.data.
Parsed(http, body, e, payload) ==
    IF body = "badjson" THEN Catch(Thrown("SyntaxError", -1, "Unexpected token"))
    ELSE IF ~ResponseOk(http)
         THEN Catch(ApiErrorOf(IF e.message = "" THEN "An error occurred" ELSE e.message,
                               http, e.errors))
    ELSE IF body = "error" THEN Catch(ApiErrorOf(e.message, http, e.errors))
    ELSE Returned(IF body = "nodata" THEN Undefined ELSE payload)

\* ------------------------------------------------ storeTokens, clearTokens
\* Faulty variant: storeTokens that writes the access token only.
storeTokens_accessOnly(p) == pend' = [pend EXCEPT ![p] = {"accessToken"}]

\* Promise.all over the two writes: both are issued, each completes in a step.
storeTokens(p) == pend' = [pend EXCEPT ![p] = Keys]

\* Faulty variant: clearTokens that removes the access token only.
clearTokens_accessOnly(p) == pend' = [pend EXCEPT ![p] = {"accessToken"}]

clearTokens(p) == pend' = [pend EXCEPT ![p] = Keys]

Settle(p, out) ==
    /\ pc' = [pc EXCEPT ![p] = "done"]
    /\ result' = [result EXCEPT ![p] = out]

\* ------------------------------------------- continuations of makeRequest
\* signIn / signUp after await makeRequest: response.tokens and tokens.accessToken
\* raise a TypeError when response or response.tokens is undefined.
signIn_resume(p, out) ==
    IF out.kind = "throw" THEN Settle(p, out) /\ UNCHANGED pend
    ELSE IF out.data.shape # "auth"
         THEN Settle(p, Thrown("TypeError", -1, "undefined is not an object")) /\ UNCHANGED pend
    ELSE /\ pc' = [pc EXCEPT ![p] = "store"]
         /\ storeTokens(p)
         /\ UNCHANGED result

\* signOut after the try block: the catch swallows, the finally clears.
signOut_finally(p) ==
    /\ pc' = [pc EXCEPT ![p] = "clear"]
    /\ clearTokens(p)
    /\ UNCHANGED result

\* Faulty variant: signOut without its catch and finally, a failed request is rethrown.
signOut_resume_rethrow(p, out) ==
    IF out.kind = "throw" THEN Settle(p, out) /\ UNCHANGED pend ELSE signOut_finally(p)

signOut_resume(p, out) == signOut_finally(p)

\* Faulty variant: refreshToken's catch block returning null without clearTokens.
refreshToken_catch_keep(p) == Settle(p, Returned(NullValue)) /\ UNCHANGED pend

\* refreshToken's catch block.
refreshToken_catch(p) ==
    /\ pc' = [pc EXCEPT ![p] = "clear"]
    /\ clearTokens(p)
    /\ UNCHANGED result

\* refreshToken after await makeRequest: response.accessToken raises a TypeError
\* on an undefined response, which the catch block takes like any failure.
refreshToken_resume(p, out) ==
    IF out.kind = "throw" \/ out.data.shape # "access"
    THEN refreshToken_catch(p)
    ELSE /\ pc' = [pc EXCEPT ![p] = "setAccess"]
         /\ UNCHANGED <<pend, result>>

\* Faulty variant: an authenticated operation that drops the stored tokens on a 401.
Header_resume_clearOn401(p, out) ==
    IF out.kind = "throw" /\ out.status = 401
    THEN signOut_finally(p)
    ELSE Settle(p, out) /\ UNCHANGED pend

\* getCurrentUser, updateProfile, changePassword return makeRequest's promise.
Header_resume(p, out) == Settle(p, out) /\ UNCHANGED pend

\* What an operation keeps of its request's outcome: signOut only logs the error
\* it caught and refreshToken's catch block ignores it.
Kept(o, out) ==
    IF o \in {"signOut", "refreshToken"} /\ out.kind = "throw"
    THEN [out EXCEPT !.message = "", !.errors = "undefined"]
    ELSE out

Resume(p, out) ==
    /\ resp' = [resp EXCEPT ![p] = Kept(op[p], out)]
    /\ CASE op[p] \in SignInOps -> signIn_resume(p, out)
         [] op[p] = "signOut" -> signOut_resume(p, out)
         [] op[p] = "refreshToken" -> refreshToken_resume(p, out)
         [] OTHER -> Header_resume(p, out)

\* ------------------------------------------------- the network, the timer
\* The response's payload for a well-formed success envelope.
Payload(p, g) ==
    CASE req[p].endpoint \in AuthEndpoints ->
            Data("auth", AccessTok(minted + 1, 0), RefreshTok(minted + 1))
      [] req[p].endpoint = "/auth/refresh-token" ->
            Data("access", AccessTok(req[p].body.from, g), Null)
      [] OTHER -> Data("other", Null, Null)

\* fetch resolves with the response (status line and headers); the continuation
\* cancels the timer and awaits response.json().
FetchResolves(p, http) ==
    /\ pc[p] = "fetch"
    /\ pc' = [pc EXCEPT ![p] = "body"]
    /\ req' = [req EXCEPT ![p].timer = FALSE, ![p].http = http]
    /\ UNCHANGED <<storage, minted, op, rtok, resp, pend, result, nreq, env, ui>>

\* Faulty variant: a network failure that wipes the stored tokens.
FetchRejects_clears(p, message) ==
    /\ pc[p] = "fetch"
    /\ req' = [req EXCEPT ![p] = [NoRequest EXCEPT !.timer = TRUE]]
    /\ Resume(p, Catch(Thrown("TypeError", -1, message)))
    /\ storage' = [k \in Keys |-> Null]
    /\ UNCHANGED <<minted, op, rtok, nreq, env, ui>>

\* fetch rejects: the host was not reached.  The catch block does not call
\* clearTimeout: the timer stays armed.
FetchRejects(p, message) ==
    /\ pc[p] = "fetch"
    /\ req' = [req EXCEPT ![p] = [NoRequest EXCEPT !.timer = TRUE]]
    /\ Resume(p, Catch(Thrown("TypeError", -1, message)))
    /\ UNCHANGED <<storage, minted, op, rtok, nreq, env, ui>>

\* The timer fires: controller.abort() rejects the pending fetch with an AbortError.
TimerFires(p) ==
    /\ pc[p] = "fetch"
    /\ req[p].timer
    /\ req' = [req EXCEPT ![p] = NoRequest]
    /\ Resume(p, Catch(Thrown("AbortError", -1, "Aborted")))
    /\ UNCHANGED <<storage, minted, op, rtok, nreq, env, ui>>

\* A timer left armed by a request that has settled fires: controller.abort() on
\* a fetch that is over does nothing.
TimerLapses(p) ==
    /\ pc[p] # "fetch"
    /\ req[p].timer
    /\ req' = [req EXCEPT ![p].timer = FALSE]
    /\ UNCHANGED <<storage, minted, pc, op, rtok, resp, pend, result, nreq, env, ui>>

\* makeRequest reads the envelope's message and errors only to build an ApiError.
ReadsEnvelope(http, body) == body # "badjson" /\ (~ResponseOk(http) \/ body = "error")
NoEnvelope == [message |-> "", errors |-> "undefined"]

\* response.json() settles: the body has been read.
BodyRead(p, body, e, g) ==
    /\ pc[p] = "body"
    /\ body = "notokens" => req[p].endpoint \in AuthEndpoints
    /\ ~ReadsEnvelope(req[p].http, body) => e = NoEnvelope
    /\ LET mints == /\ req[p].endpoint \in AuthEndpoints
                    /\ body \in {"ok", "notokens"}
                    /\ ResponseOk(req[p].http)
           payload == IF body = "notokens" THEN Data("other", Null, Null) ELSE Payload(p, g)
       IN /\ mints => minted < MaxSessions
          /\ minted' = IF mints THEN minted + 1 ELSE minted
          /\ Resume(p, Parsed(req[p].http, body, e, payload))
    /\ req' = [req EXCEPT ![p] = NoRequest]
    /\ UNCHANGED <<storage, op, rtok, nreq, env, ui>>

\* ------------------------------------------------------- the operations
\* An operation is invoked: the code up to its first await.
Invoke(p, o) ==
    /\ pc[p] = "idle"
    /\ op' = [op EXCEPT ![p] = o]
    /\ IF o \in SignInOps
       THEN makeRequest(p, Endpoint(o), Null, Null)
       ELSE /\ pc' = [pc EXCEPT ![p] =
                        CASE o \in HeaderOps -> "getAuthHeaders"
                          [] o = "isAuthenticated" -> "getAccess"
                          [] OTHER -> "getRefresh"]
            /\ UNCHANGED <<req, nreq>>
    /\ UNCHANGED <<storage, minted, rtok, resp, pend, result, env>>

\* A caller other than the screens below invokes an operation.
Call(p, o) == Invoke(p, o) /\ UNCHANGED ui

\* One write of storeTokens completes.
StoreStep(p, k) ==
    /\ pc[p] = "store"
    /\ k \in pend[p]
    /\ storage' = [storage EXCEPT ![k] = resp[p].data[IF k = "accessToken" THEN "access" ELSE "refresh"]]
    /\ pend' = [pend EXCEPT ![p] = @ \ {k}]
    /\ UNCHANGED <<minted, pc, op, rtok, req, resp, result, nreq, env, ui>>

\* signIn / signUp: storeTokens has resolved, return response.
signIn_return(p) ==
    /\ pc[p] = "store"
    /\ pend[p] = {}
    /\ Settle(p, resp[p])
    /\ UNCHANGED <<storage, minted, op, rtok, req, resp, pend, nreq, env, ui>>

\* One removeItem of clearTokens completes.
ClearStep(p, k) ==
    /\ pc[p] = "clear"
    /\ k \in pend[p]
    /\ storage' = [storage EXCEPT ![k] = Null]
    /\ pend' = [pend EXCEPT ![p] = @ \ {k}]
    /\ UNCHANGED <<minted, pc, op, rtok, req, resp, result, nreq, env, ui>>

\* clearTokens has resolved: signOut returns, refreshToken returns null.
Clear_return(p) ==
    /\ pc[p] = "clear"
    /\ pend[p] = {}
    /\ Settle(p, Returned(IF op[p] = "signOut" THEN Undefined ELSE NullValue))
    /\ UNCHANGED <<storage, minted, op, rtok, req, resp, pend, nreq, env, ui>>

\* Faulty variant: getAuthHeaders without its check, the request goes out as "Bearer null".
getAuthHeaders_unchecked(p) ==
    /\ pc[p] = "getAuthHeaders"
    /\ makeRequest(p, Endpoint(op[p]), rtok[p], storage["accessToken"])
    /\ rtok' = [rtok EXCEPT ![p] = Null]
    /\ UNCHANGED <<storage, minted, op, resp, pend, result, env, ui>>

\* getAuthHeaders: getItem('accessToken') completes.
getAuthHeaders(p) ==
    /\ pc[p] = "getAuthHeaders"
    /\ IF ~Truthy(storage["accessToken"])
       THEN /\ IF op[p] = "signOut"
               THEN signOut_finally(p)
               ELSE Settle(p, ApiError("No access token found", 401)) /\ UNCHANGED pend
            /\ UNCHANGED <<req, nreq>>
       ELSE /\ makeRequest(p, Endpoint(op[p]), rtok[p], storage["accessToken"])
            /\ UNCHANGED <<pend, result>>
    /\ rtok' = [rtok EXCEPT ![p] = Null]
    /\ UNCHANGED <<storage, minted, op, resp, env, ui>>

\* signOut: getItem('refreshToken') completes.
signOut_read(p) ==
    /\ pc[p] = "getRefresh"
    /\ op[p] = "signOut"
    /\ rtok' = [rtok EXCEPT ![p] = storage["refreshToken"]]
    /\ IF Truthy(storage["refreshToken"])
       THEN pc' = [pc EXCEPT ![p] = "getAuthHeaders"] /\ UNCHANGED <<pend, result>>
       ELSE signOut_finally(p)
    /\ UNCHANGED <<storage, minted, op, req, resp, nreq, env, ui>>

\* Faulty variant: refreshToken without its early return.
refreshToken_read_unchecked(p) ==
    /\ pc[p] = "getRefresh"
    /\ op[p] = "refreshToken"
    /\ makeRequest(p, Endpoint("refreshToken"), storage["refreshToken"], Null)
    /\ UNCHANGED <<storage, minted, op, rtok, resp, pend, result, env, ui>>

\* refreshToken: getItem('refreshToken') completes.
refreshToken_read(p) ==
    /\ pc[p] = "getRefresh"
    /\ op[p] = "refreshToken"
    /\ IF ~Truthy(storage["refreshToken"])
       THEN Settle(p, Returned(NullValue)) /\ UNCHANGED <<req, nreq>>
       ELSE makeRequest(p, Endpoint("refreshToken"), storage["refreshToken"], Null)
            /\ UNCHANGED result
    /\ UNCHANGED <<storage, minted, op, rtok, resp, pend, env, ui>>

\* Faulty variant: refreshToken storing the new token under both keys.
refreshToken_store_both(p) ==
    /\ pc[p] = "setAccess"
    /\ storage' = [k \in Keys |-> resp[p].data.access]
    /\ pc' = [pc EXCEPT ![p] = "return"]
    /\ UNCHANGED <<minted, op, rtok, req, resp, pend, result, nreq, env, ui>>

\* refreshToken: setItem('accessToken', response.accessToken) completes.
refreshToken_store(p) ==
    /\ pc[p] = "setAccess"
    /\ storage' = [storage EXCEPT !["accessToken"] = resp[p].data.access]
    /\ pc' = [pc EXCEPT ![p] = "return"]
    /\ UNCHANGED <<minted, op, rtok, req, resp, pend, result, nreq, env, ui>>

\* refreshToken: return response.accessToken.
refreshToken_return(p) ==
    /\ pc[p] = "return"
    /\ Settle(p, Returned(Data("access", resp[p].data.access, Null)))
    /\ UNCHANGED <<storage, minted, op, rtok, req, resp, pend, nreq, env, ui>>

\* isAuthenticated: the two reads, one after the other.
isAuthenticated_first(p) ==
    /\ pc[p] = "getAccess"
    /\ rtok' = [rtok EXCEPT ![p] = storage["accessToken"]]
    /\ pc' = [pc EXCEPT ![p] = "getRefresh2"]
    /\ UNCHANGED <<storage, minted, op, req, resp, pend, result, nreq, env, ui>>

\* Faulty variant: isAuthenticated comparing the two reads with null.
isAuthenticated_second_notNull(p) ==
    /\ pc[p] = "getRefresh2"
    /\ Settle(p, Returned(Bool(rtok[p] # Null /\ storage["refreshToken"] # Null)))
    /\ rtok' = [rtok EXCEPT ![p] = Null]
    /\ UNCHANGED <<storage, minted, op, req, resp, pend, nreq, env, ui>>

isAuthenticated_second(p) ==
    /\ pc[p] = "getRefresh2"
    /\ Settle(p, Returned(Bool(Truthy(rtok[p]) /\ Truthy(storage["refreshToken"]))))
    /\ rtok' = [rtok EXCEPT ![p] = Null]
    /\ UNCHANGED <<storage, minted, op, req, resp, pend, nreq, env, ui>>

\* The awaiting caller resumes with the result; its next call starts afresh.
\* A timer that the settled request left armed has no effect on anything: it
\* is let run out first.
Take(p) ==
    /\ pc[p] = "done"
    /\ ~req[p].timer
    /\ pc' = [pc EXCEPT ![p] = "idle"]
    /\ op' = [op EXCEPT ![p] = "none"]
    /\ rtok' = [rtok EXCEPT ![p] = Null]
    /\ req' = [req EXCEPT ![p] = NoRequest]
    /\ resp' = [resp EXCEPT ![p] = NoOutcome]
    /\ result' = [result EXCEPT ![p] = NoOutcome]
    /\ nreq' = [nreq EXCEPT ![p] = 0]
    /\ UNCHANGED <<storage, minted, pend, env>>

\* The awaiting caller resumes and at once invokes its next operation, one that
\* starts with a storage read.
Chain(p, o) ==
    /\ pc[p] = "done"
    /\ ~req[p].timer
    /\ op' = [op EXCEPT ![p] = o]
    /\ pc' = [pc EXCEPT ![p] = IF o \in HeaderOps THEN "getAuthHeaders" ELSE "getRefresh"]
    /\ rtok' = [rtok EXCEPT ![p] = Null]
    /\ req' = [req EXCEPT ![p] = NoRequest]
    /\ resp' = [resp EXCEPT ![p] = NoOutcome]
    /\ result' = [result EXCEPT ![p] = NoOutcome]
    /\ nreq' = [nreq EXCEPT ![p] = 0]
    /\ UNCHANGED <<storage, minted, pend, env>>

\* A caller other than the screens below takes the result.
Done(p) == ui.proc # p /\ Take(p) /\ UNCHANGED ui

\* Every step but the start of an operation.
Proceed(p) ==
    \/ \E http \in HttpStatuses : FetchResolves(p, http)
    \/ \E m \in NetworkMessages : FetchRejects(p, m)
    \/ TimerFires(p)
    \/ TimerLapses(p)
    \/ \E b \in BodyKinds, e \in Envelopes, g \in 1..MaxGen : BodyRead(p, b, e, g)
    \/ \E k \in Keys : StoreStep(p, k)
    \/ signIn_return(p)
    \/ \E k \in Keys : ClearStep(p, k)
    \/ Clear_return(p)
    \/ getAuthHeaders(p)
    \/ signOut_read(p)
    \/ refreshToken_read(p)
    \/ refreshToken_store(p)
    \/ refreshToken_return(p)
    \/ isAuthenticated_first(p)
    \/ isAuthenticated_second(p)
    \/ Done(p)

Next == \E p \in Procs : (\E o \in Ops : Call(p, o)) \/ Proceed(p)

Spec == Init /\ [][Next]_vars

\* A caller that awaits each call before the next: an operation starts only while
\* no other is in progress.
SeqCall(p, o) == (\A q \in Procs : pc[q] = "idle") /\ Call(p, o)

SeqNext == \E p \in Procs : (\E o \in Ops : SeqCall(p, o)) \/ Proceed(p)

SeqSpec == Init /\ [][SeqNext]_vars

\* The event loop runs a timer that is armed: setTimeout's callback is not starved.
FairSeqSpec == SeqSpec /\ \A p \in Procs : WF_vars(TimerFires(p))

\* isAuthenticated on its own, over everything the two keys can hold: nothing, the
\* empty string, a token.
StoredValues(k) ==
    {Null, EmptyString, IF k = "accessToken" THEN AccessTok(1, 0) ELSE RefreshTok(1)}

ReadInit ==
    /\ storage \in {f \in [Keys -> {Null, EmptyString, AccessTok(1, 0), RefreshTok(1)}] :
                       \A k \in Keys : f[k] \in StoredValues(k)}
    /\ minted = 1
    /\ pc = [p \in Procs |-> "idle"]
    /\ op = [p \in Procs |-> "none"]
    /\ rtok = [p \in Procs |-> Null]
    /\ req = [p \in Procs |-> NoRequest]
    /\ resp = [p \in Procs |-> NoOutcome]
    /\ pend = [p \in Procs |-> {}]
    /\ result = [p \in Procs |-> NoOutcome]
    /\ nreq = [p \in Procs |-> 0]
    /\ env = EnvUnset
    /\ ui = NoScreen

ReadNext ==
    \E p \in Procs :
        \/ Call(p, "isAuthenticated")
        \/ isAuthenticated_first(p)
        \/ isAuthenticated_second(p)
        \/ Done(p)

ReadSpec == ReadInit /\ [][ReadNext]_vars

\* The service loaded under any setting of the timeout entry.
ConfigInit ==
    /\ storage = [k \in Keys |-> Null]
    /\ minted = 0
    /\ pc = [p \in Procs |-> "idle"]
    /\ op = [p \in Procs |-> "none"]
    /\ rtok = [p \in Procs |-> Null]
    /\ req = [p \in Procs |-> NoRequest]
    /\ resp = [p \in Procs |-> NoOutcome]
    /\ pend = [p \in Procs |-> {}]
    /\ result = [p \in Procs |-> NoOutcome]
    /\ nreq = [p \in Procs |-> 0]
    /\ env \in EnvValues
    /\ ui = NoScreen

ConfigSpec == ConfigInit /\ [][SeqNext]_vars

\* ------------------------------------------------- the screens' handlers
\* A screen's handler starts while nothing else is going on in the app.
Quiet == \A q \in Procs : pc[q] = "idle"
Screen(name, stage) ==
    [NoScreen EXCEPT !.screen = name, !.stage = stage, !.flag = TRUE]
Running(p, name, stage) ==
    /\ ui.screen = name /\ ui.proc = p /\ ui.stage = stage
    /\ pc[p] = "done"

\* router.replace(route), then the finally block resets the screen's flag: the
\* handler has run to its end.
Navigate(route) ==
    ui' = [ui EXCEPT !.nav = Append(@, route), !.flag = FALSE,
                     !.stage = "finished", !.proc = "none"]

\* Index mounts: checkAuthenticationStatus up to await isAuthenticated().
checkAuthenticationStatus(p) ==
    /\ Quiet
    /\ ui' = [Screen("Index", "isAuthenticated") EXCEPT !.proc = p]
    /\ Invoke(p, "isAuthenticated")

\* Faulty variant: the check going to refreshToken before it tried getCurrentUser.
afterIsAuthenticated_refreshFirst(p) ==
    /\ Running(p, "Index", "isAuthenticated")
    /\ IF result[p].data.shape = "true"
       THEN /\ Chain(p, "refreshToken")
            /\ ui' = [ui EXCEPT !.stage = "refreshToken", !.refresh = @ + 1]
       ELSE Take(p) /\ Navigate("/(auth)/signin")

\* isAuthenticated() has resolved.
afterIsAuthenticated(p) ==
    /\ Running(p, "Index", "isAuthenticated")
    /\ IF result[p].data.shape = "true"
       THEN /\ Chain(p, "getCurrentUser")
            /\ ui' = [ui EXCEPT !.stage = "getCurrentUser", !.me = @ + 1]
       ELSE Take(p) /\ Navigate("/(auth)/signin")

\* getCurrentUser() has settled: the inner catch takes any error whatever.
afterGetCurrentUser(p) ==
    /\ Running(p, "Index", "getCurrentUser")
    /\ IF result[p].kind = "ret"
       THEN Take(p) /\ Navigate("/(tabs)")
       ELSE /\ Chain(p, "refreshToken")
            /\ ui' = [ui EXCEPT !.stage = "refreshToken", !.refresh = @ + 1,
                                 !.meStatus = result[p].status]

\* refreshToken() has resolved with the new token or null.
afterRefreshToken(p) ==
    /\ Running(p, "Index", "refreshToken")
    /\ Take(p)
    /\ IF result[p].kind = "ret" /\ result[p].data.shape = "access"
       THEN Navigate("/(tabs)")
       ELSE Navigate("/(auth)/signin")

\* The user confirms on the sign-out screen: handleSignOut up to await signOut().
handleSignOut(p) ==
    /\ Quiet
    /\ ui' = [Screen("SignOutScreen", "signOut") EXCEPT !.proc = p]
    /\ Invoke(p, "signOut")

\* signOut() has settled: navigate, or on an error show the alert whose button
\* navigates; the finally block resets isSigningOut either way.
afterSignOut(p) ==
    /\ Running(p, "SignOutScreen", "signOut")
    /\ Take(p)
    /\ IF result[p].kind = "ret"
       THEN Navigate("/(auth)/signin")
       ELSE ui' = [ui EXCEPT !.alert = "/(auth)/signin", !.flag = FALSE,
                             !.stage = "finished", !.proc = "none"]

\* validateForm: an error for each field that is not well-formed.
validateForm(emailOk, passwordOk) ==
    {f \in {"email", "password"} :
        (f = "email" /\ ~emailOk) \/ (f = "password" /\ ~passwordOk)}

\* The user submits the sign-in form: handleSignIn up to await signIn(), or its
\* early return when validateForm found an error.
handleSignIn(p, emailOk, passwordOk) ==
    /\ Quiet
    /\ IF validateForm(emailOk, passwordOk) # {}
       THEN /\ ui' = [NoScreen EXCEPT !.screen = "SignIn", !.stage = "finished",
                                      !.errors = validateForm(emailOk, passwordOk)]
            /\ UNCHANGED <<storage, minted, pc, op, rtok, req, resp, pend, result, nreq, env>>
       ELSE /\ ui' = [Screen("SignIn", "signIn") EXCEPT !.proc = p]
            /\ Invoke(p, "signIn")

\* The catch block of handleSignIn: the form errors set for the error caught.
FormErrors(error) ==
    IF error.err = "ApiError"
    THEN IF error.errors # "undefined"
         THEN (IF error.errors = "email" THEN {"email"} ELSE {})
         ELSE {"general"}
    ELSE {"general"}

\* signIn() has settled: the welcome alert whose button navigates, or the form
\* errors; the finally block resets loading.
afterSignIn(p) ==
    /\ Running(p, "SignIn", "signIn")
    /\ Take(p)
    /\ ui' = [ui EXCEPT !.alert = IF result[p].kind = "ret" THEN "/(tabs)" ELSE @,
                         !.errors = IF result[p].kind = "ret" THEN @ ELSE FormErrors(result[p]),
                         !.flag = FALSE, !.stage = "finished", !.proc = "none"]

\* The user presses the button of the alert a handler has shown.
alertPressed ==
    /\ ui.alert # "none"
    /\ ui' = [ui EXCEPT !.alert = "none", !.nav = Append(@, ui.alert)]
    /\ UNCHANGED <<storage, minted, pc, op, rtok, req, resp, pend, result, nreq, env>>

\* The app: screens' handlers and other calls of the service, none overlapping.
AppNext ==
    \/ \E p \in Procs :
          \/ \E o \in Ops : SeqCall(p, o)
          \/ Proceed(p)
          \/ checkAuthenticationStatus(p)
          \/ afterIsAuthenticated(p)
          \/ afterGetCurrentUser(p)
          \/ afterRefreshToken(p)
          \/ handleSignOut(p)
          \/ afterSignOut(p)
          \/ \E emailOk, passwordOk \in BOOLEAN : handleSignIn(p, emailOk, passwordOk)
          \/ afterSignIn(p)
    \/ alertPressed

AppSpec == Init /\ [][AppNext]_vars

\* What the event loop is bound to run once it can: an armed timer, a storage
\* operation, the continuation of a settled await.  The network is not: a
\* response, or its body, may never come.
Scheduled(p) ==
    \/ TimerFires(p)
    \/ TimerLapses(p)
    \/ \E k \in Keys : StoreStep(p, k)
    \/ signIn_return(p)
    \/ \E k \in Keys : ClearStep(p, k)
    \/ Clear_return(p)
    \/ getAuthHeaders(p)
    \/ signOut_read(p)
    \/ refreshToken_read(p)
    \/ refreshToken_store(p)
    \/ refreshToken_return(p)
    \/ isAuthenticated_first(p)
    \/ isAuthenticated_second(p)
    \/ afterIsAuthenticated(p)
    \/ afterGetCurrentUser(p)
    \/ afterRefreshToken(p)
    \/ afterSignOut(p)
    \/ afterSignIn(p)

FairAppSpec == AppSpec /\ \A p \in Procs : WF_vars(Scheduled(p))

\* ------------------------------------------------------------- claims
Stored(k) == storage[k] # Null
Cleared == \A k \in Keys : storage[k] = Null
Finished(p, ops) == pc[p] = "done" /\ op[p] \in ops
Stepped(p) == pc'[p] # pc[p]

\* C1: in every reachable state, whatever the interleaving of the operations'
\* storage steps, storage holds both tokens or neither.
C1_BothOrNeither == Stored("accessToken") <=> Stored("refreshToken")

\* C2: when signIn or signUp has returned, both tokens are stored and are the pair
\* of that call's response, and the response is what the caller gets.
C2_SignInStoresPair ==
    \A p \in Procs :
        Finished(p, SignInOps) /\ result[p].kind = "ret" =>
            /\ resp[p].data.shape = "auth"
            /\ result[p] = resp[p]
            /\ Stored("accessToken") /\ Stored("refreshToken")
            /\ storage["accessToken"] = resp[p].data.access
            /\ storage["refreshToken"] = resp[p].data.refresh

\* A second sign-in has returned: its pair replaced the first pair.
C2_Witness ==
    \E p \in Procs :
        /\ Finished(p, SignInOps) /\ result[p].kind = "ret"
        /\ result[p].data.refresh = RefreshTok(2)
        /\ storage["refreshToken"] = RefreshTok(2)

\* The request to /auth/refresh-token did not yield an access token: makeRequest
\* threw, or the success envelope held no data.
RefreshFailed(p) ==
    /\ op[p] = "refreshToken"
    /\ \/ resp[p].kind = "throw"
       \/ resp[p].kind = "ret" /\ resp[p].data.shape # "access"

\* C3: when refreshToken has returned after its request failed, in whatever way,
\* it returned null and neither token is stored.
C3_RefreshFailClosed ==
    \A p \in Procs :
        pc[p] = "done" /\ RefreshFailed(p) =>
            result[p] = Returned(NullValue) /\ Cleared

\* A refresh rejected with 401 has returned.
C3_Witness ==
    \E p \in Procs :
        /\ pc[p] = "done" /\ RefreshFailed(p)
        /\ resp[p].status = 401
        /\ minted > 0

\* C4: when signOut has returned, whatever became of its request to /auth/signout,
\* it returned normally and neither token is stored.
C4_SignOutUnconditional ==
    \A p \in Procs :
        Finished(p, {"signOut"}) => result[p] = Returned(Undefined) /\ Cleared

\* signOut has returned after the server answered its request with an error.
C4_Witness ==
    \E p \in Procs :
        /\ Finished(p, {"signOut"})
        /\ nreq[p] = 1
        /\ resp[p].kind = "throw" /\ resp[p].status = 500

\* No storeTokens or clearTokens is part-way: the stored pair is at rest.
AtRest == \A p \in Procs : pc[p] \notin {"store", "clear"}

\* The stored access token is one the refresh endpoint minted from a refresh token.
MintedOnRefresh == Stored("accessToken") /\ storage["accessToken"].gen >= 1

\* C5: under any interleaving of signIn/signUp with refreshToken the stored pair is
\* never mixed: an access token minted from a refresh token is never left stored
\* beside another refresh token, newer or older (judged when no write of the pair
\* is part-way).
C5_NoMixedPair ==
    AtRest /\ MintedOnRefresh /\ Stored("refreshToken") =>
        storage["accessToken"].from = storage["refreshToken"].from

\* C6: refreshToken finding no refresh token stored returns null at once and has
\* issued no request.
C6_RefreshNoSession ==
    [][\A p \in Procs :
          /\ op[p] = "refreshToken" /\ pc[p] = "getRefresh"
          /\ ~Stored("refreshToken")
          /\ Stepped(p)
          => /\ pc'[p] = "done"
             /\ result'[p] = Returned(NullValue)
             /\ nreq'[p] = 0
             /\ storage' = storage]_vars

\* refreshToken has returned null without a request.
C6_Witness ==
    \E p \in Procs :
        /\ Finished(p, {"refreshToken"})
        /\ nreq[p] = 0
        /\ result[p] = Returned(NullValue)

\* C7: when the refresh request yields an access token, refreshToken writes it to
\* accessToken and to nothing else, and returns it.
C7_RefreshWritesAccessOnly ==
    [][\A p \in Procs :
          /\ (/\ op[p] = "refreshToken" /\ pc[p] \in {"fetch", "body"}
              /\ resp'[p].kind = "ret" /\ resp'[p].data.shape = "access")
             => pc'[p] = "setAccess" /\ storage' = storage
          /\ (pc[p] = "setAccess" /\ Stepped(p))
             => /\ pc'[p] = "return"
                /\ storage' = [storage EXCEPT !["accessToken"] = resp[p].data.access]
                /\ resp'[p] = resp[p]
          /\ (pc[p] = "return" /\ Stepped(p))
             => /\ pc'[p] = "done"
                /\ result'[p] = Returned(Data("access", resp[p].data.access, Null))
                /\ storage' = storage]_vars

\* refreshToken has returned a new access token, stored beside the old refresh token.
C7_Witness ==
    \E p \in Procs :
        /\ Finished(p, {"refreshToken"})
        /\ result[p].data.shape = "access"
        /\ result[p].data.access.gen >= 1
        /\ storage["accessToken"] = result[p].data.access
        /\ storage["refreshToken"] = RefreshTok(result[p].data.access.from)

\* C8: getCurrentUser, updateProfile and changePassword finding no access token
\* stored fail with an ApiError of status 401 and have issued no request.
C8_UnauthorizedShortCircuit ==
    [][\A p \in Procs :
          /\ op[p] \in HeaderOps /\ pc[p] = "getAuthHeaders"
          /\ ~Stored("accessToken")
          /\ Stepped(p)
          => /\ pc'[p] = "done"
             /\ result'[p].kind = "throw"
             /\ result'[p].err = "ApiError"
             /\ result'[p].status = 401
             /\ nreq'[p] = 0]_vars

\* An authenticated operation has failed with 401 without a request.
C8_Witness ==
    \E p \in Procs :
        /\ Finished(p, HeaderOps)
        /\ nreq[p] = 0
        /\ result[p].err = "ApiError" /\ result[p].status = 401

\* C9: while fetch is pending the timer is armed; when it fires the request ends
\* with an ApiError of status 408, which signIn, signUp and the authenticated
\* operations pass to their caller; and a pending fetch does not stay pending.
C9_TimeoutBoundary ==
    /\ [](\A p \in Procs : pc[p] = "fetch" => req[p].timer)
    /\ [][\A p \in Procs :
             TimerFires(p) =>
                /\ resp'[p].err = "ApiError" /\ resp'[p].status = 408
                /\ op[p] \in SignInOps \cup HeaderOps =>
                      pc'[p] = "done" /\ result'[p] = resp'[p]]_vars
    /\ \A p \in Procs : (pc[p] = "fetch") ~> (pc[p] # "fetch")

\* An operation has failed with status 408.
C9_Witness ==
    \E p \in Procs :
        /\ Finished(p, SignInOps \cup HeaderOps)
        /\ result[p].err = "ApiError" /\ result[p].status = 408

\* C10: the deadline covers the whole exchange: as long as makeRequest awaits the
\* network (fetch, then the body), its timer is armed, so the request cannot wait
\* forever.
C10_DeadlineCoversExchange ==
    \A p \in Procs : pc[p] \in {"fetch", "body"} => req[p].timer

\* C11 as stated: whatever the body of a response whose status is outside 2xx,
\* makeRequest fails with an ApiError of that status.
C11_NonOkStatus ==
    [][\A p \in Procs :
          pc[p] = "body" /\ Stepped(p) /\ ~ResponseOk(req[p].http) =>
              resp'[p].err = "ApiError" /\ resp'[p].status = req[p].http]_vars

\* C11, amended: when the status is outside 2xx and the body parses to an envelope,
\* makeRequest fails with an ApiError of that status; when the body does not
\* parse, with an ApiError of status 500.
C11_NonOkStatusParsed ==
    [][\A p \in Procs : \A b \in BodyKinds, e \in Envelopes, g \in 1..MaxGen :
          BodyRead(p, b, e, g) /\ ~ResponseOk(req[p].http) =>
              /\ resp'[p].kind = "throw" /\ resp'[p].err = "ApiError"
              /\ resp'[p].status = IF b = "badjson" THEN 500 ELSE req[p].http]_vars

\* A request the server answered with 401 has failed with status 401.
C11_Witness ==
    \E p \in Procs :
        /\ pc[p] = "done" /\ nreq[p] = 1
        /\ resp[p].err = "ApiError" /\ resp[p].status = 401

\* C12: a 2xx response whose envelope says "error" makes makeRequest throw an
\* ApiError with the response's status, and the envelope's message and errors
\* reach the caller of signIn, signUp and the authenticated operations with it.
C12_EnvelopePrecedence ==
    [][\A p \in Procs : \A e \in Envelopes, g \in 1..MaxGen :
          BodyRead(p, "error", e, g) /\ ResponseOk(req[p].http) =>
              /\ resp'[p].kind = "throw" /\ resp'[p].err = "ApiError"
              /\ resp'[p].status = req[p].http
              /\ op[p] \in SignInOps \cup HeaderOps =>
                    /\ resp'[p] = ApiErrorOf(e.message, req[p].http, e.errors)
                    /\ pc'[p] = "done" /\ result'[p] = resp'[p]]_vars

\* signIn has failed with status 200 and the envelope's message and errors.
C12_Witness ==
    \E p \in Procs :
        /\ Finished(p, SignInOps)
        /\ result[p] = ApiErrorOf("Invalid credentials", 200, "email")

\* C13: whatever the message fetch rejects with when the host is not reached,
\* makeRequest fails with an ApiError of status 0.
C13_NetworkStatusZero ==
    [][\A p \in Procs : \A m \in NetworkMessages :
          FetchRejects(p, m) => resp'[p].err = "ApiError" /\ resp'[p].status = 0]_vars

\* C14: what signIn, signUp, getCurrentUser, updateProfile and changePassword
\* throw is an ApiError with a numeric status, nothing else.
C14_OnlyApiErrors ==
    \A p \in Procs :
        Finished(p, SignInOps \cup HeaderOps) /\ result[p].kind = "throw" =>
            result[p].err = "ApiError" /\ result[p].status >= 0

\* C15: when signIn or signUp fails, what it throws is the ApiError its request
\* raised, unchanged, and storage is as it was.
C15_SignInFailureFrame ==
    [][\A p \in Procs :
          /\ op[p] \in SignInOps /\ pc[p] \in {"fetch", "body"}
          /\ pc'[p] = "done" /\ result'[p].kind = "throw"
          => /\ result'[p].err = "ApiError"
             /\ result'[p] = resp'[p]
             /\ storage' = storage]_vars

\* C16: isAuthenticated returns true exactly when both keys hold a non-empty
\* string, and it writes nothing and sends nothing.
C16_IsAuthenticated ==
    /\ [](\A p \in Procs :
            Finished(p, {"isAuthenticated"}) =>
                /\ result[p] = Returned(Bool(/\ storage["accessToken"] \notin {Null, EmptyString}
                                             /\ storage["refreshToken"] \notin {Null, EmptyString}))
                /\ nreq[p] = 0)
    /\ [][\A p \in Procs :
            op[p] = "isAuthenticated" /\ Stepped(p) =>
                storage' = storage /\ nreq'[p] = 0 /\ req'[p] = NoRequest]_vars

\* isAuthenticated has answered false over an access token and an empty refresh token.
C16_Witness ==
    \E p \in Procs :
        /\ Finished(p, {"isAuthenticated"})
        /\ storage["accessToken"] = AccessTok(1, 0)
        /\ storage["refreshToken"] = EmptyString
        /\ result[p] = Returned(Bool(FALSE))

\* C17: every request in flight carries Content-Type: application/json, and one
\* to an authenticated endpoint also carries the stored access token as bearer.
C17_RequestHeaders ==
    \A p \in Procs :
        pc[p] = "fetch" =>
            /\ "Content-Type" \in req[p].headers
            /\ HasHeadersOption(req[p].endpoint) =>
                  "Authorization" \in req[p].headers /\ req[p].auth \notin {Null, EmptyString}

\* C18: a signOut that finds a refresh token stored sends one request, to
\* /auth/signout, with that refresh token in the body and the stored access token
\* as bearer; a signOut that finds none sends no request at all.
C18_SignOutRequest ==
    [][\A p \in Procs :
          op[p] = "signOut" /\ Stepped(p) =>
              CASE pc[p] = "getRefresh" ->
                      IF storage["refreshToken"] \notin {Null, EmptyString}
                      THEN pc'[p] = "getAuthHeaders" /\ nreq'[p] = 0
                      ELSE pc'[p] = "clear" /\ nreq'[p] = 0
                [] pc[p] = "getAuthHeaders" ->
                      /\ pc'[p] = "fetch" /\ nreq'[p] = 1
                      /\ req'[p].endpoint = "/auth/signout"
                      /\ req'[p].body = rtok[p]
                      /\ req'[p].auth = storage["accessToken"]
                      /\ "Authorization" \in req'[p].headers
                [] OTHER -> nreq'[p] \in {nreq[p], 0} /\ pc'[p] # "fetch"]_vars

\* C19: no operation issues a second request or calls another endpoint than its
\* own, and getCurrentUser, updateProfile and changePassword leave the stored
\* tokens alone whatever the answer, a 401 included.
C19_NoRetry ==
    /\ [](\A p \in Procs :
            /\ nreq[p] <= 1
            /\ pc[p] \in {"fetch", "body"} => req[p].endpoint = Endpoint(op[p]))
    /\ [][\A p \in Procs :
            op[p] \in HeaderOps =>
                /\ storage' = storage
                /\ pc[p] \in {"fetch", "body"} => pc'[p] \in {"fetch", "body", "done"}]_vars

\* An authenticated operation has failed with the server's 401 and the tokens are
\* still stored.
C19_Witness ==
    \E p \in Procs :
        /\ Finished(p, HeaderOps) /\ nreq[p] = 1
        /\ result[p].err = "ApiError" /\ result[p].status = 401
        /\ \A k \in Keys : Stored(k)

\* C20: the delay a request's timer is armed with is the configured value when
\* the entry is a number, and 10000 when the entry is unset or not a number.
C20_EffectiveTimeout ==
    \A p \in Procs :
        req[p].timer =>
            IF env.set /\ Len(env.text) > 0 /\ \A i \in 1..Len(env.text) : IsDigit(env.text[i])
            THEN req[p].delay = Decimal(env.text)
            ELSE req[p].delay = 10000

\* C21: the bootstrap check goes on to refreshToken only when getCurrentUser
\* failed with status 401.
C21_RefreshOnlyOn401 ==
    ui.screen = "Index" /\ ui.refresh > 0 => ui.meStatus = 401

\* C22: in one run of the bootstrap check refreshToken is called at most once and
\* getCurrentUser at most twice, and refreshToken only in the step that takes a
\* failure of getCurrentUser.
C22_BootstrapCalls ==
    /\ [](ui.screen = "Index" =>
            /\ ui.refresh <= 1 /\ ui.me <= 2
            /\ ui.refresh = 1 => ui.me >= 1 /\ ui.meStatus >= 0)
    /\ [][ui'.refresh > ui.refresh =>
            \E p \in Procs :
                /\ ui.screen = "Index" /\ ui.proc = p
                /\ Finished(p, {"getCurrentUser"}) /\ result[p].kind = "throw"
                /\ op'[p] = "refreshToken"]_vars

\* A run of the bootstrap check has ended after one getCurrentUser and one refreshToken.
C22_Witness ==
    /\ ui.screen = "Index" /\ ui.stage = "finished"
    /\ ui.me = 1 /\ ui.refresh = 1

\* C23: every run of the bootstrap check ends: it has navigated exactly once, to
\* '/(tabs)' or to sign-in, and isCheckingAuth is false.
C23_BootstrapNavigates ==
    (ui.screen = "Index" /\ ui.stage # "finished")
        ~> (/\ ui.screen = "Index" /\ ui.stage = "finished"
            /\ Len(ui.nav) = 1 /\ ui.nav[1] \in Routes /\ ~ui.flag)

\* C27: once the user has confirmed on the sign-out screen, the handler ends: it
\* has navigated to sign-in with both tokens cleared, and isSigningOut is false.
C27_SignOutNavigates ==
    (ui.screen = "SignOutScreen" /\ ui.stage # "finished")
        ~> (/\ ui.screen = "SignOutScreen" /\ ui.stage = "finished"
            /\ ui.nav = <<"/(auth)/signin">> /\ Cleared /\ ~ui.flag)

\* C24: with calls that do not overlap, whenever no call is in progress both
\* tokens are stored or both are absent.
C24_PairBetweenCalls ==
    (\A p \in Procs : pc[p] = "idle") =>
        (storage["accessToken"] # Null <=> storage["refreshToken"] # Null)

\* No call is in progress and the stored pair holds a refreshed access token.
C24_Witness ==
    /\ \A p \in Procs : pc[p] = "idle"
    /\ storage["refreshToken"].kind = "refresh"
    /\ storage["accessToken"].kind = "access" /\ storage["accessToken"].gen = 1

\* Storage holds the pair of a signIn or signUp that has returned.
HoldsReturnedPair ==
    \E q \in Procs :
        /\ Finished(q, SignInOps) /\ result[q].kind = "ret"
        /\ storage["accessToken"] = result[q].data.access
        /\ storage["refreshToken"] = result[q].data.refresh

\* C25: a refreshToken whose request fails does not go on to remove the tokens
\* when these are the pair of a sign-in that returned after the refresh had read
\* its refresh token, which is then another one than the stored.
C25_LaterSessionSurvives ==
    [][\A p \in Procs :
          /\ op[p] = "refreshToken" /\ pc[p] \in {"fetch", "body"}
          /\ HoldsReturnedPair /\ storage["refreshToken"] # req[p].body
          => pc'[p] # "clear"]_vars

\* C26: from the moment signOut has returned with storage empty, storage stays
\* empty as long as no signIn or signUp is started.
C26_EmptyAfterSignOut ==
    [][(/\ \E q \in Procs : Finished(q, {"signOut"})
        /\ Cleared
        /\ \A p \in Procs : op[p] \notin SignInOps /\ op'[p] \notin SignInOps)
       => (\A k \in Keys : storage'[k] = Null)]_vars

\* C28: a sign-in attempt on the sign-in screen that has ended without success
\* has left at least one message in the form's errors, and loading is false.
C28_FailedSignInShowsError ==
    (/\ ui.screen = "SignIn" /\ ui.stage = "finished"
     /\ ui.alert = "none" /\ ui.nav = <<>>)
        => ui.errors # {} /\ ~ui.flag

\* C29: no step of makeRequest, from its call to its return or throw, changes a
\* storage entry, whatever the outcome.
C29_MakeRequestFrame ==
    [][\A p \in Procs :
          (pc'[p] = "fetch" \/ (pc[p] \in {"fetch", "body"} /\ Stepped(p)))
              => storage' = storage]_vars

\* A request made with both tokens stored has timed out and they are still there.
C29_Witness ==
    \E p \in Procs :
        /\ Finished(p, HeaderOps) /\ nreq[p] = 1
        /\ resp[p] = ApiError("Request timeout", 408)
        /\ storage["accessToken"].kind = "access"
        /\ storage["refreshToken"].kind = "refresh"

====
